---- MODULE Spec2Model ----
(***************************************************************************)
(* react-redux-firebase: the firebase state reducer (src/reducer.js and    *)
(* its built variant with the parent check), the Immutable.js operations   *)
(* it calls, and the read helpers of src/helpers.js.                       *)
(*                                                                         *)
(* JavaScript values are tagged records:                                   *)
(*   [t |-> "undefined"], [t |-> "null"], [t |-> "string", v |-> s],       *)
(*   [t |-> "boolean", v |-> b], [t |-> "Object", m |-> f] (plain object), *)
(*   [t |-> "Map", m |-> f] (Immutable.Map), f a function from keys.       *)
(* A path string, the only string the code takes apart, is a sequence of   *)
(* one-character strings.                                                  *)
(***************************************************************************)
EXTENDS Naturals, Sequences, FiniteSets, TLC

VARIABLES variant, state, pending, outcome, query, view, firebase

vars == <<variant, state, pending, outcome, query, view, firebase>>

-----------------------------------------------------------------------------
(* JavaScript values *)

Undefined == [t |-> "undefined"]
Null == [t |-> "null"]
Str(s) == [t |-> "string", v |-> s]
Bool(b) == [t |-> "boolean", v |-> b]
Obj(f) == [t |-> "Object", m |-> f]
MapOf(f) == [t |-> "Map", m |-> f]
EmptyFn == [k \in {} |-> Undefined]

\* Immutable's private sentinel for "no entry"
NOT_SET == [t |-> "NOT_SET"]
\* the Error thrown by Immutable's invariant(); TypeError thrown by the runtime
InvalidKeyPath == [t |-> "Error", message |-> "invalid keyPath"]
TypeError == [t |-> "TypeError"]
\* the ReferenceError of a read in the temporal dead zone of a const
ReferenceError == [t |-> "ReferenceError"]
IsError(v) == v.t \in {"Error", "TypeError", "ReferenceError"}

\* JavaScript truthiness (!!v)
Truthy(v) ==
  CASE v.t = "undefined" -> FALSE
    [] v.t = "null" -> FALSE
    [] v.t = "boolean" -> v.v
    [] v.t = "string" -> v.v # ""
    [] OTHER -> TRUE

RECURSIVE fromJS(_)
fromJS(v) ==
  IF v.t = "Object" THEN MapOf([k \in DOMAIN v.m |-> fromJS(v.m[k])]) ELSE v

RECURSIVE deepToJS(_)
deepToJS(v) ==
  IF v.t \in {"Map", "Object"} THEN Obj([k \in DOMAIN v.m |-> deepToJS(v.m[k])]) ELSE v

\* helpers.toJS: data && data.toJS ? data.toJS() : data
toJS(v) == IF v.t = "Map" THEN deepToJS(v) ELSE v

-----------------------------------------------------------------------------
(* Immutable.Map operations used by the reducer and the helpers *)

MapGet(coll, key, notSetValue) ==
  IF key \in DOMAIN coll.m THEN coll.m[key] ELSE notSetValue

MapSet(coll, key, v) ==
  MapOf([k \in DOMAIN coll.m \cup {key} |-> IF k = key THEN v ELSE coll.m[k]])

MapRemove(coll, key) ==
  MapOf([k \in DOMAIN coll.m \ {key} |-> coll.m[k]])

\* getIn: nested = nested && nested.get ? nested.get(key, NOT_SET) : NOT_SET
RECURSIVE getIn(_, _, _)
getIn(nested, keyPath, notSetValue) ==
  IF keyPath = <<>> THEN nested
  ELSE LET next == IF nested.t = "Map" THEN MapGet(nested, Head(keyPath), NOT_SET)
                   ELSE NOT_SET
       IN IF next = NOT_SET THEN notSetValue
          ELSE getIn(next, Tail(keyPath), notSetValue)

\* updateInDeepMap with a constant updater () => newValue
RECURSIVE updateInDeepMap(_, _, _, _)
updateInDeepMap(existing, keyPath, notSetValue, newValue) ==
  LET isNotSet == existing = NOT_SET IN
  IF keyPath = <<>>
  THEN LET existingValue == IF isNotSet THEN notSetValue ELSE existing
       IN IF newValue = existingValue THEN existing ELSE newValue
  ELSE IF ~(isNotSet \/ existing.t = "Map") THEN InvalidKeyPath
  ELSE LET key == Head(keyPath)
           nextExisting == IF isNotSet THEN NOT_SET ELSE MapGet(existing, key, NOT_SET)
           nextUpdated == updateInDeepMap(nextExisting, Tail(keyPath), notSetValue, newValue)
       IN IF IsError(nextUpdated) THEN nextUpdated
          ELSE IF nextUpdated = nextExisting THEN existing
          ELSE IF nextUpdated = NOT_SET THEN MapRemove(existing, key)
          ELSE MapSet(IF isNotSet THEN MapOf(EmptyFn) ELSE existing, key, nextUpdated)

updateIn(coll, keyPath, notSetValue, newValue) ==
  LET updatedValue == updateInDeepMap(coll, keyPath, notSetValue, newValue)
  IN IF updatedValue = NOT_SET THEN Undefined ELSE updatedValue

setIn(coll, keyPath, v) == updateIn(coll, keyPath, NOT_SET, v)

deleteIn(coll, keyPath) == updateIn(coll, keyPath, Undefined, NOT_SET)

\* lodash dropRight(array): all but the last element
dropRight(arr) == IF arr = <<>> THEN <<>> ELSE SubSeq(arr, 1, Len(arr) - 1)

-----------------------------------------------------------------------------
(* Path codec *)

\* String.prototype.split(/\//): the segments between slashes, as keys
RECURSIVE split(_)
split(s) ==
  IF s = <<>> THEN <<"">>
  ELSE LET rest == split(Tail(s))
       IN IF Head(s) = "/" THEN <<"">> \o rest
          ELSE <<Head(s) \o Head(rest)>> \o Tail(rest)

\* const pathToArr = path => path.split(/\//).filter(p => !!p)
pathToArr(path) == SelectSeq(split(path), LAMBDA p : p # "")

\* helpers.fixPath: add a leading "/" if there is none
fixPath(path) ==
  (IF path # <<>> /\ Head(path) = "/" THEN <<>> ELSE <<"/">>) \o path

-----------------------------------------------------------------------------
(* Events (redux actions); the types are the names of constants.actionTypes *)

SET == "SET"
NO_VALUE == "NO_VALUE"
SET_PROFILE == "SET_PROFILE"
LOGIN == "LOGIN"
LOGOUT == "LOGOUT"
LOGIN_ERROR == "LOGIN_ERROR"
AUTHENTICATION_INIT_STARTED == "AUTHENTICATION_INIT_STARTED"
AUTHENTICATION_INIT_FINISHED == "AUTHENTICATION_INIT_FINISHED"
UNAUTHORIZED_ERROR == "UNAUTHORIZED_ERROR"

\* a path string value; v is its sequence of characters
PathStr(cs) == [t |-> "string", v |-> cs]

\* an action object; a field the producer left out reads as undefined
Event(type, path, data, profile, auth, authError) ==
  [type |-> type, path |-> path, data |-> data, profile |-> profile,
   auth |-> auth, authError |-> authError]

NoEvent == Event("@@INIT", Undefined, Undefined, Undefined, Undefined, Undefined)

-----------------------------------------------------------------------------
(* The reducer *)

emptyState ==
  Obj([k \in {"auth", "authError", "profile", "isInitializing", "data"} |->
         IF k = "data" THEN Obj(EmptyFn) ELSE Undefined])

initialState == fromJS(emptyState)

\* ['data', ...pathArr]
dataPath(pathArr) == <<"data">> \o pathArr

\* the write of SET made on the default snapshot in place of the current one
writeAttemptOnInitial(retVal, keyPath, data) ==
  IF data # Undefined
  THEN setIn(initialState, keyPath, fromJS(data))
  ELSE deleteIn(retVal, keyPath)

\* the write of SET with the payload stored as it came, not converted by fromJS
writeAttemptNoConvert(retVal, keyPath, data) ==
  IF data # Undefined
  THEN setIn(retVal, keyPath, data)
  ELSE deleteIn(retVal, keyPath)

\* the value the try block of SET computes; an Error when setIn/deleteIn throws
writeAttempt(retVal, keyPath, data) ==
  IF data # Undefined
  THEN setIn(retVal, keyPath, fromJS(data))
  ELSE deleteIn(retVal, keyPath)

\* the try block of SET without its catch: the throw leaves the reducer
setOrDeleteUncaught(retVal, keyPath, data) == writeAttempt(retVal, keyPath, data)

\* the try block of SET: on a throw retVal keeps the value it had before
setOrDelete(retVal, keyPath, data) ==
  LET attempt == writeAttempt(retVal, keyPath, data)
  IN IF IsError(attempt) THEN retVal ELSE attempt

\* src/reducer.js, before the try: a null at the path itself is deleted
clearNull(s, keyPath, data) ==
  IF data # Undefined /\ getIn(s, keyPath, Undefined) = Null
  THEN deleteIn(s, keyPath)
  ELSE s

\* the built reducer, before the try: a null at the path, else at its parent
clearNullParentCheck(s, keyPath, data) ==
  IF data # Undefined /\ getIn(s, keyPath, Undefined) = Null
  THEN deleteIn(s, keyPath)
  ELSE IF getIn(s, dropRight(keyPath), Undefined) = Null
  THEN deleteIn(s, dropRight(keyPath))
  ELSE s

\* case SET returning as soon as a null marker was cleared, without the write
reduceSETClearOnly(s, a, parentCheck) ==
  IF a.path = Undefined THEN TypeError
  ELSE LET keyPath == dataPath(pathToArr(a.path.v))
           retVal == IF parentCheck THEN clearNullParentCheck(s, keyPath, a.data)
                     ELSE clearNull(s, keyPath, a.data)
       IN IF IsError(retVal) \/ retVal # s THEN retVal
          ELSE setOrDelete(retVal, keyPath, a.data)

\* case SET
reduceSET(s, a, parentCheck) ==
  IF a.path = Undefined THEN TypeError
  ELSE LET keyPath == dataPath(pathToArr(a.path.v))
           retVal == IF parentCheck THEN clearNullParentCheck(s, keyPath, a.data)
                     ELSE clearNull(s, keyPath, a.data)
       IN IF IsError(retVal) THEN retVal ELSE setOrDelete(retVal, keyPath, a.data)

\* NO_VALUE writing a null marker in place of the empty record
noValueAttemptNull(s, keyPath) == setIn(s, keyPath, Null)

\* the value the try block of NO_VALUE computes
noValueAttempt(s, keyPath) == setIn(s, keyPath, fromJS(Obj(EmptyFn)))

\* case NO_VALUE: retVal stays undefined when setIn throws
reduceNO_VALUE(s, a) ==
  IF a.path = Undefined THEN TypeError
  ELSE LET attempt == noValueAttempt(s, dataPath(pathToArr(a.path.v)))
       IN IF IsError(attempt) THEN Undefined ELSE attempt

\* case SET_PROFILE merging a record payload into the profile held before
reduceSET_PROFILEMerge(s, a) ==
  LET before == getIn(s, <<"profile">>, NOT_SET)
      payload == fromJS(a.profile)
  IN IF a.profile = Undefined THEN deleteIn(s, <<"profile">>)
     ELSE IF before.t = "Map" /\ payload.t = "Map"
     THEN setIn(s, <<"profile">>,
                MapOf([k \in DOMAIN before.m \cup DOMAIN payload.m |->
                         IF k \in DOMAIN payload.m THEN payload.m[k] ELSE before.m[k]]))
     ELSE setIn(s, <<"profile">>, payload)

reduceSET_PROFILE(s, a) ==
  LET attempt == IF a.profile # Undefined
                 THEN setIn(s, <<"profile">>, fromJS(a.profile))
                 ELSE deleteIn(s, <<"profile">>)
  IN IF IsError(attempt) THEN Undefined ELSE attempt

reduceLOGOUT ==
  fromJS(Obj([k \in {"auth", "authError", "profile", "isLoading", "data"} |->
                CASE k = "isLoading" -> Bool(FALSE)
                  [] k = "data" -> Obj(EmptyFn)
                  [] OTHER -> Null]))

\* case LOGIN clearing profile as well, as LOGIN_ERROR does
reduceLOGINClearProfile(s, a) ==
  setIn(setIn(setIn(s, <<"auth">>, fromJS(a.auth)), <<"authError">>, Null),
        <<"profile">>, Null)

reduceLOGIN(s, a) ==
  setIn(setIn(s, <<"auth">>, fromJS(a.auth)), <<"authError">>, Null)

\* case LOGIN_ERROR without its last setIn: profile is kept
reduceLOGIN_ERRORKeepProfile(s, a) ==
  setIn(setIn(s, <<"authError">>, a.authError), <<"auth">>, Null)

reduceLOGIN_ERROR(s, a) ==
  setIn(setIn(setIn(s, <<"authError">>, a.authError), <<"auth">>, Null),
        <<"profile">>, Null)

\* case AUTHENTICATION_INIT_STARTED as the line the source keeps commented out
reduceAUTHENTICATION_INIT_STARTEDKeepState(s) == setIn(s, <<"isInitializing">>, Bool(TRUE))

\* case AUTHENTICATION_INIT_STARTED: the argument is not read
reduceAUTHENTICATION_INIT_STARTED(s) == setIn(initialState, <<"isInitializing">>, Bool(TRUE))

reduceAUTHENTICATION_INIT_FINISHED(s) == setIn(s, <<"isInitializing">>, Bool(FALSE))

\* case UNAUTHORIZED_ERROR clearing auth as well, as LOGIN_ERROR does
reduceUNAUTHORIZED_ERRORClearAuth(s, a) ==
  setIn(setIn(s, <<"authError">>, a.authError), <<"auth">>, Null)

reduceUNAUTHORIZED_ERROR(s, a) == setIn(s, <<"authError">>, a.authError)

\* the switch of the reducer; the state parameter defaults to initialState
reducerWith(stateArg, a, parentCheck) ==
  LET s == IF stateArg = Undefined THEN initialState ELSE stateArg IN
  CASE a.type = SET -> reduceSET(s, a, parentCheck)
    [] a.type = NO_VALUE -> reduceNO_VALUE(s, a)
    [] a.type = SET_PROFILE -> reduceSET_PROFILE(s, a)
    [] a.type = LOGOUT -> reduceLOGOUT
    [] a.type = LOGIN -> reduceLOGIN(s, a)
    [] a.type = LOGIN_ERROR -> reduceLOGIN_ERROR(s, a)
    [] a.type = AUTHENTICATION_INIT_STARTED -> reduceAUTHENTICATION_INIT_STARTED(s)
    [] a.type = AUTHENTICATION_INIT_FINISHED -> reduceAUTHENTICATION_INIT_FINISHED(s)
    [] a.type = UNAUTHORIZED_ERROR -> reduceUNAUTHORIZED_ERROR(s, a)
    [] OTHER -> s

\* src/reducer.js
firebaseStateReducer(stateArg, a) == reducerWith(stateArg, a, FALSE)

\* the built reducer
firebaseStateReducerBuilt(stateArg, a) == reducerWith(stateArg, a, TRUE)

Variants == {"src", "built"}

reduce(v, stateArg, a) ==
  IF v = "src" THEN firebaseStateReducer(stateArg, a)
  ELSE firebaseStateReducerBuilt(stateArg, a)

-----------------------------------------------------------------------------
(* The reducer of src/utils/presence.js: the parent check of the built       *)
(* reducer, no try around any write, and a SET whose write is chosen by       *)
(* profile, the const that case SET_PROFILE declares further down the switch  *)

\* what reading profile gives inside case SET: the const is in its temporal
\* dead zone when the module runs as written, and is an unassigned var once
\* the module is compiled the way src/unnamed/part_000 was
profileInSET(build) == IF build = "const" THEN ReferenceError ELSE Undefined

\* case SET of utils/presence.js
reducePresenceSET(s, a, build) ==
  IF a.path = Undefined THEN TypeError
  ELSE LET keyPath == dataPath(pathToArr(a.path.v))
           retVal == clearNullParentCheck(s, keyPath, a.data)
           profile == profileInSET(build)
       IN IF IsError(retVal) THEN retVal
          ELSE IF IsError(profile) THEN profile
          ELSE IF profile # Undefined THEN setIn(retVal, keyPath, fromJS(a.data))
          ELSE deleteIn(retVal, keyPath)

\* case NO_VALUE of utils/presence.js: a throw of setIn leaves the reducer
reducePresenceNO_VALUE(s, a) ==
  IF a.path = Undefined THEN TypeError
  ELSE setIn(s, dataPath(pathToArr(a.path.v)), fromJS(Obj(EmptyFn)))

\* case SET_PROFILE of utils/presence.js
reducePresenceSET_PROFILE(s, a) ==
  IF a.profile # Undefined
  THEN setIn(s, <<"profile">>, fromJS(a.profile))
  ELSE deleteIn(s, <<"profile">>)

\* the switch of utils/presence.js
firebaseStateReducerPresence(stateArg, a, build) ==
  LET s == IF stateArg = Undefined THEN initialState ELSE stateArg IN
  CASE a.type = SET -> reducePresenceSET(s, a, build)
    [] a.type = NO_VALUE -> reducePresenceNO_VALUE(s, a)
    [] a.type = SET_PROFILE -> reducePresenceSET_PROFILE(s, a)
    [] a.type = LOGOUT -> reduceLOGOUT
    [] a.type = LOGIN -> reduceLOGIN(s, a)
    [] a.type = LOGIN_ERROR -> reduceLOGIN_ERROR(s, a)
    [] a.type = AUTHENTICATION_INIT_STARTED -> reduceAUTHENTICATION_INIT_STARTED(s)
    [] a.type = AUTHENTICATION_INIT_FINISHED -> reduceAUTHENTICATION_INIT_FINISHED(s)
    [] a.type = UNAUTHORIZED_ERROR -> reduceUNAUTHORIZED_ERROR(s, a)
    [] OTHER -> s

\* the three reducers, utils/presence.js in each of its builds
AllVariants == Variants \cup {"presence", "presenceVar"}

reduceVariant(v, stateArg, a) ==
  CASE v \in Variants -> reduce(v, stateArg, a)
    [] v = "presence" -> firebaseStateReducerPresence(stateArg, a, "const")
    [] v = "presenceVar" -> firebaseStateReducerPresence(stateArg, a, "var")

-----------------------------------------------------------------------------
(* Read helpers (src/helpers.js) *)

\* the characters of "/data"
SlashData == <<"/", "d", "a", "t", "a">>

\* Array.prototype.slice(1)
slice1(arr) == IF arr = <<>> THEN <<>> ELSE Tail(arr)

\* dataToJS(data, path, notSetValue); data.getIn exists on a Map only
dataToJS(data, path, notSetValue) ==
  IF ~Truthy(data) THEN notSetValue
  ELSE LET pathArr == slice1(split(SlashData \o fixPath(path)))
       IN IF data.t = "Map" THEN toJS(getIn(data, pathArr, notSetValue)) ELSE data

\* pathToJS(data, path, notSetValue) for paths that name no meta parameter
pathToJS(data, path, notSetValue) ==
  IF ~Truthy(data) THEN notSetValue
  ELSE LET pathArr == slice1(split(fixPath(path)))
       IN IF data.t = "Map" THEN toJS(getIn(data, pathArr, notSetValue)) ELSE data

\* isLoaded(...arguments): true without arguments, else no argument is undefined
isLoaded(arguments) ==
  IF Len(arguments) = 0 THEN TRUE
  ELSE \A i \in 1..Len(arguments) : arguments[i] # Undefined

\* lodash size: own keys of an object, length of a string, 0 for anything else
size(collection) ==
  CASE collection.t \in {"Object", "Map"} -> Cardinality(DOMAIN collection.m)
    [] collection.t = "string" -> Len(collection.v)
    [] OTHER -> 0

\* an emptiness test that only looks at truthiness: !data
isEmptyFalsy(data) == ~Truthy(data)

\* isEmpty = data => !(data && size(data))
isEmpty(data) == ~(Truthy(data) /\ size(data) # 0)

-----------------------------------------------------------------------------
(* Populate resolver (helpers.populatedDataToJS) *)

\* obj[key] of a JavaScript value; reading a property of null/undefined throws
prop(v, key) ==
  CASE v.t = "Object" -> IF key \in DOMAIN v.m THEN v.m[key] ELSE Undefined
    [] v.t \in {"null", "undefined"} -> TypeError
    [] OTHER -> Undefined

\* { ...child, [key]: v }
withProp(child, key, v) ==
  Obj([k \in DOMAIN child.m \cup {key} |-> IF k = key THEN v ELSE child.m[k]])

\* Object.assign({}, v, obj): the own keys of v, overridden by those of obj
assign(v, obj) ==
  Obj([k \in DOMAIN v.m \cup DOMAIN obj.m |->
         IF k \in DOMAIN obj.m THEN obj.m[k] ELSE v.m[k]])

\* utils/populate getPopulateObjs: join specifications given as objects pass through
getPopulateObjs(populates) == populates

\* toJS(data.getIn(['data', p.root, getKey])); only a string is a key of the Map
lookupRoot(data, root, getKey) ==
  IF getKey.t = "string" THEN toJS(getIn(data, <<"data", root, getKey.v>>, Undefined))
  ELSE Undefined

\* the iteratee of the inner mapValues giving the key back for every
\* unresolved entry, a true marker included
populateEntryKeyFallback(data, p, val, key) ==
  LET getKey == IF val = Bool(TRUE) THEN Str(key) ELSE val
      found == lookupRoot(data, p.root, getKey)
  IN IF Truthy(found) THEN found ELSE getKey

\* the iteratee of the inner mapValues: one entry of a reference list
populateEntry(data, p, val, key) ==
  LET getKey == IF val = Bool(TRUE) THEN Str(key) ELSE val
      found == lookupRoot(data, p.root, getKey)
  IN IF Truthy(found) THEN found
     ELSE IF val = Bool(TRUE) THEN val ELSE getKey

\* lodash mapValues over a reference list; a value that is no object has no entries
populateList(data, p, list) ==
  IF list.t = "Object"
  THEN Obj([key \in DOMAIN list.m |-> populateEntry(data, p, list.m[key], key)])
  ELSE Obj(EmptyFn)

\* the iteratee giving back the foreign record alone under child, the other
\* fields of the record dropped
populateChildOnlyRef(data, p, child) ==
  LET ref == prop(child, p.child) IN
  IF IsError(ref) THEN ref
  ELSE IF ~Truthy(ref) THEN child
  ELSE IF ref.t = "string"
  THEN IF Truthy(lookupRoot(data, p.root, ref))
       THEN withProp(Obj(EmptyFn), p.child, lookupRoot(data, p.root, ref))
       ELSE child
  ELSE withProp(child, p.child, populateList(data, p, ref))

\* the iteratee storing whatever the lookup gave, found or not
populateChildUnchecked(data, p, child) ==
  LET ref == prop(child, p.child) IN
  IF IsError(ref) THEN ref
  ELSE IF ~Truthy(ref) THEN child
  ELSE IF ref.t = "string"
  THEN withProp(child, p.child, lookupRoot(data, p.root, ref))
  ELSE withProp(child, p.child, populateList(data, p, ref))

\* the iteratee of the outer mapValues: one record of the collection
populateChild(data, p, child) ==
  LET ref == prop(child, p.child) IN
  IF IsError(ref) THEN ref
  ELSE IF ~Truthy(ref) THEN child
  ELSE IF ref.t = "string"
  THEN IF Truthy(lookupRoot(data, p.root, ref))
       THEN withProp(child, p.child, lookupRoot(data, p.root, ref))
       ELSE child
  ELSE withProp(child, p.child, populateList(data, p, ref))

\* mapValues(toJS(data.getIn(pathArr)), child => ...) for one join specification
populateOne(data, pathArr, p) ==
  LET list == toJS(getIn(data, pathArr, Undefined)) IN
  IF list.t # "Object" THEN Obj(EmptyFn)
  ELSE IF \E i \in DOMAIN list.m : IsError(populateChild(data, p, list.m[i]))
  THEN TypeError
  ELSE Obj([i \in DOMAIN list.m |-> populateChild(data, p, list.m[i])])

\* lodash reduce(collection, (obj, v) => Object.assign({}, v, obj)) with no
\* initial accumulator: the first element starts, undefined for an empty list
RECURSIVE reduceAssign(_, _)
reduceAssign(obj, rest) ==
  IF rest = <<>> THEN obj
  ELSE IF IsError(obj) \/ IsError(Head(rest)) THEN TypeError
  ELSE reduceAssign(assign(Head(rest), obj), Tail(rest))

populatedDataToJS(data, path, populates, notSetValue) ==
  IF ~Truthy(data) THEN notSetValue
  ELSE LET pathArr == slice1(split(SlashData \o fixPath(path)))
       IN IF data.t # "Map" THEN data
          ELSE IF ~Truthy(toJS(getIn(data, pathArr, notSetValue)))
          THEN toJS(getIn(data, pathArr, Undefined))
          ELSE LET populateObjs == getPopulateObjs(populates)
                   mapped == [n \in 1..Len(populateObjs) |->
                                populateOne(data, pathArr, populateObjs[n])]
               IN IF mapped = <<>> THEN Undefined
                  ELSE reduceAssign(Head(mapped), Tail(mapped))

\* a read through populatedDataToJS and its arguments
Query(path, populates, notSetValue) ==
  [asked |-> TRUE, path |-> path, populates |-> populates, notSetValue |-> notSetValue]

NoQuery == [asked |-> FALSE, path |-> <<>>, populates |-> <<>>, notSetValue |-> Undefined]

-----------------------------------------------------------------------------
(* The client object of actions/auth.js: its fields under firebase._, and    *)
(* what the remote side holds for it                                         *)

\* no callback: the null of firebase._.profileWatch
NoWatch == 0

\* the client object before init; populate says whether
\* config.profileParamsToPopulate is an array or a string
\*   authUid       firebase._.authUid
\*   profileWatch  firebase._.profileWatch, the callback .on returned
\*   watches       the number of value callbacks created so far
\*   listeners     the value callbacks attached at the remote database, each
\*                 with the uid of the profile path it is attached to
\*   promises      the revisions whose promisesForPopulate has not settled
\*   rev           the revision of the profile snapshot delivered last
\*   authListener  whether init has registered its onAuthStateChanged handler
\*   currentUser   firebase.auth().currentUser
\*   attempts      the number of login, createUser and resetPassword calls made
\*   logins        the login calls whose sign-in promise has not settled
\*   creating      the createUser calls whose promise chain has not settled,
\*                 each with its signIn flag and the promise it waits for
\*   resets        the resetPassword calls whose promise has not settled
Client(populate) ==
  [populate |-> populate, authUid |-> "null", profileWatch |-> NoWatch, watches |-> 0,
   listeners |-> {}, promises |-> {}, rev |-> 0, authListener |-> FALSE,
   currentUser |-> "null", attempts |-> 0, logins |-> {}, creating |-> {}, resets |-> {}]

-----------------------------------------------------------------------------
(* Inputs *)

MaxPathLen == 5

Chars == {"/", "a", "b"}

\* the locations of data the events address: a chain three deep and a sibling
Locations == {<<>>, <<"a">>, <<"b">>, <<"a", "b">>, <<"a", "b", "a">>}

RECURSIVE CharSeqs(_)
CharSeqs(n) ==
  IF n = 0 THEN {<<>>}
  ELSE LET shorter == CharSeqs(n - 1)
       IN shorter \cup {Append(cs, c) : cs \in {x \in shorter : Len(x) = n - 1}, c \in Chars}

\* every spelling, up to MaxPathLen characters, of a path to one of Locations
PathStrings == {cs \in CharSeqs(MaxPathLen) : pathToArr(cs) \in Locations}

\* payloads of SET: nothing (delete), remote null, a scalar, records
DataValues ==
  {Undefined, Null, Str("v"), Obj(EmptyFn), Obj([k \in {"b"} |-> Str("v")])}

-----------------------------------------------------------------------------
(* The event-delivery loop: the transport hands over one event at a time and  *)
(* the reducer is called once on it; a throw leaves the stored snapshot as it *)
(* was                                                                        *)

\* what the reducer gives back for the event in flight
Reduced == reduce(variant, state, pending)

Init ==
  /\ variant \in Variants
  /\ state = initialState
  /\ pending = NoEvent
  /\ outcome = "init"
  /\ query = NoQuery
  /\ view = Undefined
  /\ firebase = Client(FALSE)

DeliverSET ==
  \E p \in PathStrings, d \in DataValues :
    /\ pending = NoEvent
    /\ pending' = Event(SET, PathStr(p), d, Undefined, Undefined, Undefined)
    /\ UNCHANGED <<variant, state, outcome, query, view, firebase>>

DeliverNO_VALUE ==
  \E p \in PathStrings :
    /\ pending = NoEvent
    /\ pending' = Event(NO_VALUE, PathStr(p), Undefined, Undefined, Undefined, Undefined)
    /\ UNCHANGED <<variant, state, outcome, query, view, firebase>>

\* a SET or NO_VALUE event that carries no path
DeliverMalformed ==
  \E ty \in {SET, NO_VALUE}, d \in {Undefined, Str("v")} :
    /\ pending = NoEvent
    /\ pending' = Event(ty, Undefined, d, Undefined, Undefined, Undefined)
    /\ UNCHANGED <<variant, state, outcome, query, view, firebase>>

DeliverLOGOUT ==
  /\ pending = NoEvent
  /\ pending' = Event(LOGOUT, Undefined, Undefined, Undefined, Undefined, Undefined)
  /\ UNCHANGED <<variant, state, outcome, query, view, firebase>>

DeliverAUTHENTICATION_INIT_STARTED ==
  /\ pending = NoEvent
  /\ pending' = Event(AUTHENTICATION_INIT_STARTED, Undefined, Undefined, Undefined,
                      Undefined, Undefined)
  /\ UNCHANGED <<variant, state, outcome, query, view, firebase>>

\* an event of a type the reducer does not know
DeliverOther ==
  /\ pending = NoEvent
  /\ pending' = Event("@@other", Undefined, Undefined, Undefined, Undefined, Undefined)
  /\ UNCHANGED <<variant, state, outcome, query, view, firebase>>

\* the reducer is called on the event in flight and the loop stores its result
Reduce ==
  /\ pending # NoEvent
  /\ pending' = NoEvent
  /\ IF IsError(Reduced)
     THEN state' = state /\ outcome' = "threw"
     ELSE state' = Reduced /\ outcome' = "returned"
  /\ UNCHANGED <<variant, query, view, firebase>>

Next ==
  \/ DeliverSET
  \/ DeliverNO_VALUE
  \/ DeliverMalformed
  \/ DeliverLOGOUT
  \/ DeliverAUTHENTICATION_INIT_STARTED
  \/ DeliverOther
  \/ Reduce

Spec == Init /\ [][Next]_vars

-----------------------------------------------------------------------------
(* Vocabulary of the properties *)

\* the snapshot the reducer works on (its state parameter after defaulting)
Snapshot == IF state = Undefined THEN initialState ELSE state

\* the snapshot the loop holds once the event in flight has been reduced
AfterReduce == IF IsError(Reduced) THEN state ELSE Reduced

HasPath == pending.type \in {SET, NO_VALUE} /\ pending.path # Undefined

\* the key sequence the event in flight addresses inside data
PendingArr == pathToArr(pending.path.v)

IsPrefix(p, q) == Len(p) <= Len(q) /\ SubSeq(q, 1, Len(p)) = p

\* the node of data at a key sequence, NOT_SET when there is none
NodeAt(s, arr) == getIn(s, dataPath(arr), NOT_SET)

\* some proper ancestor of arr inside data holds null
NullAncestor(s, arr) ==
  \E i \in 1..(Len(arr) - 1) : NodeAt(s, SubSeq(arr, 1, i)) = Null

\* the path to arr passes through a scalar: data or a proper ancestor is a string
ThroughScalar(s, arr) ==
  \E i \in 0..(Len(arr) - 1) : NodeAt(s, SubSeq(arr, 1, i)).t \in {"string", "boolean"}

\* the path to arr cannot be written: it passes through a scalar or null
Unwritable(s, arr) ==
  \E i \in 0..(Len(arr) - 1) :
    NodeAt(s, SubSeq(arr, 1, i)).t \in {"string", "boolean", "null"}

\* the snapshot the reducer works on satisfies the invariant of data
DataIsRecord == NodeAt(Snapshot, <<>>).t = "Map"

\* the write of the event in flight fails: its setIn or deleteIn throws
Rejected ==
  /\ HasPath
  /\ LET keyPath == dataPath(PendingArr)
     IN IF pending.type = NO_VALUE
        THEN IsError(noValueAttempt(Snapshot, keyPath))
        ELSE LET retVal == IF variant = "built"
                           THEN clearNullParentCheck(Snapshot, keyPath, pending.data)
                           ELSE clearNull(Snapshot, keyPath, pending.data)
             IN IsError(writeAttempt(retVal, keyPath, pending.data))

Keys == {"a", "b"}

\* every key sequence of data up to the depth of Locations
KeyPaths ==
  {<<>>} \cup {<<k>> : k \in Keys} \cup {<<k, l>> : k, l \in Keys}
    \cup {<<k, l, m>> : k, l, m \in Keys}

-----------------------------------------------------------------------------
(* Properties of the SET and NO_VALUE transitions *)

\* C1: a SET with defined data at a path some proper ancestor of which holds
\* null succeeds: the reducer returns a snapshot holding the new value there.
SetBelowNullAncestorSucceeds ==
  (HasPath /\ pending.type = SET /\ pending.data # Undefined
     /\ NullAncestor(Snapshot, PendingArr))
  => (~IsError(Reduced) /\ NodeAt(Reduced, PendingArr) = fromJS(pending.data))

\* C2: a NO_VALUE whose path cannot be written returns the previous snapshot.
NoValueUnwritableReturnsPrevious ==
  (HasPath /\ pending.type = NO_VALUE /\ DataIsRecord /\ Unwritable(Snapshot, PendingArr))
  => Reduced = Snapshot

\* the event in flight is a SET of a defined value through a scalar
SetThroughScalarCase ==
  HasPath /\ pending.type = SET /\ pending.data # Undefined
    /\ ThroughScalar(state, PendingArr)

\* C3: a SET with defined data whose path passes through a scalar returns
\* exactly the previous snapshot: no node is added, removed or changed.
SetThroughScalarReturnsPrevious ==
  SetThroughScalarCase => Reduced = state

\* C3, reached: such a SET, three keys deep, has been reduced to the snapshot
\* it started from
SetThroughScalarReached ==
  SetThroughScalarCase /\ Reduced = state /\ Len(PendingArr) = 3

\* C4: the reducer never throws into the event-delivery loop.
ReducerNeverThrows == outcome # "threw"

\* C5: after a rejected transition every value that was readable through
\* dataToJS is still readable with the same value.
RejectedKeepsReadable ==
  (DataIsRecord /\ Rejected)
  => \A q \in PathStrings :
       dataToJS(AfterReduce, q, Undefined) = dataToJS(state, q, Undefined)

\* C6: in every reachable snapshot data is present and is a record.
DataAlwaysRecord ==
  /\ state.t = "Map"
  /\ "data" \in DOMAIN state.m
  /\ state.m["data"].t = "Map"

\* C9: after a SET of a defined value with path string p, dataToJS with any
\* spelling of the same path (p included) returns the written value.
SpellingsReadWritten ==
  (HasPath /\ pending.type = SET /\ pending.data # Undefined /\ PendingArr # <<>>
     /\ ~IsError(Reduced) /\ NodeAt(Reduced, PendingArr) = fromJS(pending.data))
  => \A q \in PathStrings :
       pathToArr(q) = PendingArr
         => dataToJS(Reduced, q, Undefined) = pending.data

\* C10: a SET with undefined data removes exactly the node at the path: the
\* path then reads as not set, an unrelated location reads as before, and an
\* ancestor keeps the marker or scalar it held (a record stays a record).
DeleteRemovesExactlyNode ==
  (HasPath /\ pending.type = SET /\ pending.data = Undefined /\ DataIsRecord)
  => /\ ~IsError(Reduced)
     /\ NodeAt(Reduced, PendingArr) = NOT_SET
     /\ \A loc \in KeyPaths :
          LET before == NodeAt(Snapshot, loc)
              after == NodeAt(Reduced, loc)
          IN IF IsPrefix(PendingArr, loc) THEN TRUE
             ELSE IF IsPrefix(loc, PendingArr)
             THEN IF before.t = "Map" THEN after.t = "Map" ELSE after = before
             ELSE after = before
     /\ \A k \in DOMAIN Snapshot.m \ {"data"} :
          getIn(Reduced, <<k>>, NOT_SET) = Snapshot.m[k]

\* for each location, the spellings dataToJS resolves to it
SpellingsRead ==
  [arr \in Locations |->
     {q \in PathStrings : slice1(split(SlashData \o fixPath(q))) = dataPath(arr)}]

ReadSpellings(arr) == SpellingsRead[arr]

\* the event in flight is a SET of a defined value at a path every ancestor
\* of which, data included, is a record or missing
SetWritableCase ==
  HasPath /\ pending.type = SET /\ pending.data # Undefined
    /\ ~Unwritable(Snapshot, PendingArr)

\* C11: a SET of a defined value v at a path whose ancestors are records or
\* missing returns a snapshot that holds v at the path, whatever was there
\* before: the node is fromJS(v) and dataToJS reads v back.
SetThenReadGivesValue ==
  SetWritableCase
  => /\ ~IsError(Reduced)
     /\ NodeAt(Reduced, PendingArr) = fromJS(pending.data)
     /\ toJS(NodeAt(Reduced, PendingArr)) = pending.data
     /\ \A q \in ReadSpellings(PendingArr) :
          dataToJS(Reduced, q, Undefined) = pending.data

\* C11, reached: a record is written two keys deep over a null marker
SetOverNullMarkerReached ==
  /\ SetWritableCase
  /\ Len(PendingArr) = 2
  /\ NodeAt(Snapshot, PendingArr) = Null
  /\ pending.data = Obj([k \in {"b"} |-> Str("v")])
  /\ dataToJS(Reduced, <<"a", "/", "b">>, Undefined) = pending.data

\* for each location, the paths strictly below it, spelled as dataToJS reads them
SpellingsBelow ==
  [arr \in Locations |->
     UNION {SpellingsRead[loc] : loc \in {l \in Locations : IsPrefix(arr, l) /\ l # arr}}]

\* a SET event as the transport builds it
SetEvent(q, d) == Event(SET, PathStr(q), d, Undefined, Undefined, Undefined)

\* the SET of d at spelling q, reduced on snapshot s
ThenSet(s, q, d) == reduce(variant, s, SetEvent(q, d))

\* C12: once NO_VALUE has been applied at a path, a SET of a defined value at
\* any path below it succeeds, and the nested path then reads as that value.
SetBelowNoValueSucceeds ==
  (HasPath /\ pending.type = NO_VALUE)
  => \A q \in SpellingsBelow[PendingArr], d \in DataValues \ {Undefined} :
       LET after == ThenSet(Reduced, q, d)
       IN /\ ~IsError(after)
          /\ NodeAt(after, pathToArr(q)) = fromJS(d)
          /\ \A r \in ReadSpellings(pathToArr(q)) :
               dataToJS(after, r, Undefined) = d

\* C12, reached: NO_VALUE lands on a scalar at a and the SET two keys below
\* it is then read back
SetBelowNoValueReached ==
  /\ HasPath /\ pending.type = NO_VALUE
  /\ PendingArr = <<"a">>
  /\ NodeAt(Snapshot, PendingArr) = Str("v")
  /\ NodeAt(Reduced, PendingArr) = MapOf(EmptyFn)
  /\ dataToJS(ThenSet(Reduced, <<"a", "/", "b", "/", "a">>, Str("v")),
              <<"a", "/", "b", "/", "a">>, Undefined) = Str("v")

\* the event in flight is a NO_VALUE at a path every ancestor of which, data
\* included, is a record or missing
NoValueWritableCase ==
  HasPath /\ pending.type = NO_VALUE /\ ~Unwritable(Snapshot, PendingArr)

\* the snapshot s holds no value at the place dataToJS reads for spelling q
HoldsNoValue(s, q) ==
  s = Undefined \/ getIn(s, slice1(split(SlashData \o fixPath(q))), NOT_SET) = NOT_SET

\* C13: after NO_VALUE at a writable path the path reads as an empty record
\* whatever it held, so isLoaded and isEmpty are both true of the read; a
\* path that holds no value reads as undefined, of which isLoaded is false.
NoValueReadsLoadedAndEmpty ==
  /\ NoValueWritableCase
     => /\ ~IsError(Reduced)
        /\ NodeAt(Reduced, PendingArr) = MapOf(EmptyFn)
        /\ \A q \in ReadSpellings(PendingArr) :
             LET read == dataToJS(Reduced, q, Undefined)
             IN read = Obj(EmptyFn) /\ isLoaded(<<read>>) /\ isEmpty(read)
  /\ pending = NoEvent
     => \A q \in PathStrings :
          HoldsNoValue(state, q)
          => LET read == dataToJS(state, q, Undefined)
             IN read = Undefined /\ ~isLoaded(<<read>>)

\* C13, reached: NO_VALUE replaces a non-empty record at a by the empty one
NoValueOverRecordReached ==
  /\ NoValueWritableCase
  /\ PendingArr = <<"a">>
  /\ NodeAt(Snapshot, PendingArr) = MapOf([k \in {"b"} |-> Str("v")])
  /\ ~isEmpty(dataToJS(state, <<"a">>, Undefined))
  /\ isEmpty(dataToJS(Reduced, <<"a">>, Undefined))
  /\ isLoaded(<<dataToJS(Reduced, <<"a">>, Undefined)>>)
  /\ ~isLoaded(<<dataToJS(Reduced, <<"a", "/", "b">>, Undefined)>>)

\* the event in flight, reduced a second time on the snapshot it produced
ReducedTwice == reduce(variant, Reduced, pending)

\* C14: a SET event applied twice in a row gives the snapshot it gives applied
\* once, whatever its payload and whether or not its path can be written.
SetTwiceSameAsOnce ==
  (HasPath /\ pending.type = SET)
  => /\ ~IsError(Reduced)
     /\ ReducedTwice = Reduced

\* C14, reached: a SET below a null marker, which the first application
\* either clears (parent check) or leaves in place, is applied twice
SetTwiceBelowNullReached ==
  /\ HasPath /\ pending.type = SET /\ pending.data # Undefined
  /\ Len(PendingArr) = 2
  /\ NodeAt(Snapshot, dropRight(PendingArr)) = Null
  /\ (variant = "built") = (Reduced # Snapshot)
  /\ ReducedTwice = Reduced

\* the fields of the snapshot beside data
AuthFields == {"auth", "authError", "profile", "isInitializing"}

\* the field k of snapshot s, NOT_SET when s has no such field
Field(s, k) == getIn(s, <<k>>, NOT_SET)

\* C15: a SET of a defined value at p changes no value at a location q that
\* is neither at or below p nor an ancestor of p, and changes none of auth,
\* authError, profile and isInitializing.
SetLeavesUnrelatedAlone ==
  (HasPath /\ pending.type = SET /\ pending.data # Undefined)
  => LET after == Reduced
         arr == PendingArr
     IN /\ ~IsError(after)
        /\ \A loc \in KeyPaths :
             (~IsPrefix(arr, loc) /\ ~IsPrefix(loc, arr))
             => NodeAt(after, loc) = NodeAt(Snapshot, loc)
        /\ \A k \in AuthFields : Field(after, k) = Field(Snapshot, k)

\* C15, reached: the parent check clears a null marker at a for a SET at a/b
\* while b holds a value and isInitializing is set
SetBesideSiblingReached ==
  /\ HasPath /\ pending.type = SET /\ pending.data # Undefined
  /\ variant = "built"
  /\ PendingArr = <<"a", "b">>
  /\ NodeAt(Snapshot, <<"a">>) = Null
  /\ NodeAt(Snapshot, <<"b">>) = Str("v")
  /\ Field(Snapshot, "isInitializing") = Bool(TRUE)
  /\ NodeAt(Reduced, <<"a", "b">>) = fromJS(pending.data)
  /\ NodeAt(Reduced, <<"b">>) = Str("v")
  /\ Field(Reduced, "isInitializing") = Bool(TRUE)

-----------------------------------------------------------------------------
(* The event loop under the authentication events: every event of           *)
(* actions/auth.js with its payload, and SET and NO_VALUE at two paths so    *)
(* that data varies                                                          *)

\* what the provider hands over as auth data, as an error, as a profile
AuthValues == {Undefined, Null, Obj([k \in {"uid"} |-> Str("u1")])}
ErrorValues == {Undefined, Null, Str("denied"), Obj([k \in {"code"} |-> Str("denied")])}
ProfileValues ==
  {Undefined, Null, Obj([k \in {"name"} |-> Str("Al")]),
   Obj([k \in {"email"} |-> Str("al@x")])}

\* the spellings of the paths a and a/b
AuthPaths == {<<"a">>, <<"a", "/", "b">>}

InitAuth ==
  /\ variant \in Variants
  /\ state = initialState
  /\ pending = NoEvent
  /\ outcome = "init"
  /\ query = NoQuery
  /\ view = Undefined
  /\ firebase = Client(FALSE)

\* dispatchLogin
DeliverLOGIN ==
  \E auth \in AuthValues :
    /\ pending = NoEvent
    /\ pending' = Event(LOGIN, Undefined, Undefined, Undefined, auth, Null)
    /\ UNCHANGED <<variant, state, outcome, query, view, firebase>>

\* dispatchLoginError
DeliverLOGIN_ERROR ==
  \E authError \in ErrorValues :
    /\ pending = NoEvent
    /\ pending' = Event(LOGIN_ERROR, Undefined, Undefined, Undefined, Undefined, authError)
    /\ UNCHANGED <<variant, state, outcome, query, view, firebase>>

\* dispatchUnauthorizedError
DeliverUNAUTHORIZED_ERROR ==
  \E authError \in ErrorValues :
    /\ pending = NoEvent
    /\ pending' = Event(UNAUTHORIZED_ERROR, Undefined, Undefined, Undefined, Undefined,
                        authError)
    /\ UNCHANGED <<variant, state, outcome, query, view, firebase>>

DeliverAUTHENTICATION_INIT_FINISHED ==
  /\ pending = NoEvent
  /\ pending' = Event(AUTHENTICATION_INIT_FINISHED, Undefined, Undefined, Undefined,
                      Undefined, Undefined)
  /\ UNCHANGED <<variant, state, outcome, query, view, firebase>>

\* the profile watcher hands over the profile snapshot
DeliverSET_PROFILE ==
  \E profile \in ProfileValues :
    /\ pending = NoEvent
    /\ pending' = Event(SET_PROFILE, Undefined, Undefined, profile, Undefined, Undefined)
    /\ UNCHANGED <<variant, state, outcome, query, view, firebase>>

\* a SET or NO_VALUE at one of the two paths
DeliverData ==
  \E ty \in {SET, NO_VALUE}, p \in AuthPaths, d \in {Undefined, Str("v")} :
    /\ pending = NoEvent
    /\ (ty = NO_VALUE => d = Undefined)
    /\ pending' = Event(ty, PathStr(p), d, Undefined, Undefined, Undefined)
    /\ UNCHANGED <<variant, state, outcome, query, view, firebase>>

NextAuth ==
  \/ DeliverLOGIN
  \/ DeliverLOGIN_ERROR
  \/ DeliverUNAUTHORIZED_ERROR
  \/ DeliverAUTHENTICATION_INIT_FINISHED
  \/ DeliverSET_PROFILE
  \/ DeliverData
  \/ DeliverLOGOUT
  \/ DeliverAUTHENTICATION_INIT_STARTED
  \/ Reduce

SpecAuth == InitAuth /\ [][NextAuth]_vars

-----------------------------------------------------------------------------
(* Properties of the authentication transitions *)

\* C16: LOGOUT gives, from every snapshot, the default snapshot plus
\* isLoading = false: data is the empty record, and auth, authError, profile
\* and isInitializing are fields holding what they hold in the default
\* snapshot.
LogoutGivesDefaultSnapshot ==
  pending.type = LOGOUT
  => /\ Reduced = setIn(initialState, <<"isLoading">>, Bool(FALSE))
     /\ \A k \in AuthFields : Field(Reduced, k) = Field(initialState, k)
     /\ Field(Reduced, "data") = MapOf(EmptyFn)
     /\ Field(Reduced, "isLoading") = Bool(FALSE)

\* C17: AUTHENTICATION_INIT_STARTED gives, from every snapshot, the default
\* snapshot with isInitializing = true: data is empty again and auth,
\* authError and profile are as in the default snapshot.
InitStartedDiscardsEverything ==
  pending.type = AUTHENTICATION_INIT_STARTED
  => LET after == Reduced
     IN /\ ~IsError(after)
        /\ DOMAIN after.m = DOMAIN initialState.m
        /\ Field(after, "isInitializing") = Bool(TRUE)
        /\ Field(after, "data") = MapOf(EmptyFn)
        /\ \A k \in AuthFields \ {"isInitializing"} :
             Field(after, k) = Field(initialState, k)

\* C17, reached: the event arrives at a logged-in snapshot that holds data,
\* a profile and an error
InitStartedOverDataReached ==
  /\ pending.type = AUTHENTICATION_INIT_STARTED
  /\ NodeAt(Snapshot, <<"a", "b">>) = Str("v")
  /\ Field(Snapshot, "auth") = MapOf([k \in {"uid"} |-> Str("u1")])
  /\ Field(Snapshot, "profile") = MapOf([k \in {"name"} |-> Str("Al")])
  /\ Field(Snapshot, "authError") = Str("denied")
  /\ Field(Reduced, "data") = MapOf(EmptyFn)
  /\ Field(Reduced, "auth") = Undefined

\* every field a snapshot can have
AllFields == AuthFields \cup {"data", "isLoading"}

\* the snapshots s and t agree on every field but those of the set changed
SameBut(s, t, changed) == \A k \in AllFields \ changed : Field(s, k) = Field(t, k)

\* the characters of the paths "auth" and "authError"
AuthPath == <<"a", "u", "t", "h">>
AuthErrorPath == <<"a", "u", "t", "h", "E", "r", "r", "o", "r">>

\* C18: LOGIN sets auth to the auth payload of the event and clears
\* authError; profile, data and isInitializing stay exactly as they were.
LoginSetsAuthOnly ==
  pending.type = LOGIN
  => LET after == Reduced
     IN /\ ~IsError(after) /\ after # Undefined
        /\ Field(after, "auth") = fromJS(pending.auth)
        /\ pathToJS(after, AuthPath, NOT_SET) = pending.auth
        /\ Field(after, "authError") = Null
        /\ SameBut(after, Snapshot, {"auth", "authError"})

\* C18, reached: a login arrives at a snapshot that holds an error, a
\* profile, data and a finished initialisation
LoginOverErrorReached ==
  /\ pending.type = LOGIN
  /\ pending.auth = Obj([k \in {"uid"} |-> Str("u1")])
  /\ Field(Snapshot, "authError") = Str("denied")
  /\ Field(Snapshot, "profile") = MapOf([k \in {"name"} |-> Str("Al")])
  /\ NodeAt(Snapshot, <<"a">>) = Str("v")
  /\ Field(Snapshot, "isInitializing") = Bool(FALSE)
  /\ Field(Reduced, "authError") = Null
  /\ Field(Reduced, "profile") = Field(Snapshot, "profile")

\* C19: LOGIN_ERROR sets authError to the authError payload of the event and
\* clears auth and profile; data and isInitializing stay exactly as they were.
LoginErrorClearsAuthAndProfile ==
  pending.type = LOGIN_ERROR
  => LET after == Reduced
     IN /\ ~IsError(after) /\ after # Undefined
        /\ Field(after, "authError") = pending.authError
        /\ pathToJS(after, AuthErrorPath, NOT_SET) = pending.authError
        /\ Field(after, "auth") = Null
        /\ Field(after, "profile") = Null
        /\ SameBut(after, Snapshot, {"auth", "authError", "profile"})

\* C19, reached: a login error arrives at a logged-in snapshot with a
\* profile and data
LoginErrorOverLoginReached ==
  /\ pending.type = LOGIN_ERROR
  /\ pending.authError = Obj([k \in {"code"} |-> Str("denied")])
  /\ Field(Snapshot, "auth") = MapOf([k \in {"uid"} |-> Str("u1")])
  /\ Field(Snapshot, "profile") = MapOf([k \in {"name"} |-> Str("Al")])
  /\ NodeAt(Snapshot, <<"a", "b">>) = Str("v")
  /\ Field(Snapshot, "isInitializing") = Bool(TRUE)
  /\ Field(Reduced, "profile") = Null
  /\ NodeAt(Reduced, <<"a", "b">>) = Str("v")

\* C20: AUTHENTICATION_INIT_FINISHED changes isInitializing, to false, and
\* nothing else; UNAUTHORIZED_ERROR changes authError, to its payload, and
\* nothing else.
InitFinishedAndUnauthorizedChangeOwnField ==
  /\ pending.type = AUTHENTICATION_INIT_FINISHED
     => LET after == Reduced
        IN /\ ~IsError(after) /\ after # Undefined
           /\ Field(after, "isInitializing") = Bool(FALSE)
           /\ SameBut(after, Snapshot, {"isInitializing"})
  /\ pending.type = UNAUTHORIZED_ERROR
     => LET after == Reduced
        IN /\ ~IsError(after) /\ after # Undefined
           /\ Field(after, "authError") = pending.authError
           /\ SameBut(after, Snapshot, {"authError"})

\* C20, reached: an unauthorized error arrives at a logged-in snapshot whose
\* initialisation an earlier AUTHENTICATION_INIT_FINISHED has ended
UnauthorizedAfterInitFinishedReached ==
  /\ pending.type = UNAUTHORIZED_ERROR
  /\ pending.authError = Str("denied")
  /\ Field(Snapshot, "isInitializing") = Bool(FALSE)
  /\ Field(Snapshot, "auth") = MapOf([k \in {"uid"} |-> Str("u1")])
  /\ Field(Snapshot, "authError") = Null
  /\ Field(Snapshot, "profile") = MapOf([k \in {"name"} |-> Str("Al")])
  /\ NodeAt(Snapshot, <<"a">>) = Str("v")
  /\ Field(Reduced, "auth") = Field(Snapshot, "auth")
  /\ Field(Reduced, "authError") = Str("denied")

\* the characters of the path "profile"
ProfilePath == <<"p", "r", "o", "f", "i", "l", "e">>

\* C21: SET_PROFILE with a defined profile makes the payload the whole
\* profile, with an undefined profile removes the profile field; auth,
\* authError, data and isInitializing stay as they were.
SetProfileReplacesWholesale ==
  pending.type = SET_PROFILE
  => LET after == Reduced
     IN /\ ~IsError(after) /\ after # Undefined
        /\ IF pending.profile # Undefined
           THEN /\ Field(after, "profile") = fromJS(pending.profile)
                /\ pathToJS(after, ProfilePath, NOT_SET) = pending.profile
           ELSE /\ Field(after, "profile") = NOT_SET
                /\ pathToJS(after, ProfilePath, Undefined) = Undefined
        /\ SameBut(after, Snapshot, {"profile"})

\* C21, reached: a profile with other fields replaces the one held by a
\* logged-in snapshot with data
SetProfileOverProfileReached ==
  /\ pending.type = SET_PROFILE
  /\ pending.profile = Obj([k \in {"email"} |-> Str("al@x")])
  /\ Field(Snapshot, "profile") = MapOf([k \in {"name"} |-> Str("Al")])
  /\ Field(Snapshot, "auth") = MapOf([k \in {"uid"} |-> Str("u1")])
  /\ NodeAt(Snapshot, <<"a">>) = Str("v")
  /\ Field(Reduced, "profile") = MapOf([k \in {"email"} |-> Str("al@x")])
  /\ Field(Reduced, "auth") = Field(Snapshot, "auth")

-----------------------------------------------------------------------------
(* Reads through the populate resolver: a snapshot the reducer built from two *)
(* SET events (a collection of todos, a collection of users) is read with     *)
(* every query of a small family                                              *)

\* the characters of the paths "todos" and "users"
TodosPath == <<"t", "o", "d", "o", "s">>
UsersPath == <<"u", "s", "e", "r", "s">>

Al == Obj([k \in {"name"} |-> Str("Al")])

\* a todo: an optional scalar reference and an optional reference list
OwnerValues == {Undefined, Str("u1"), Str("u9")}
ListValues ==
  {Undefined,
   Obj([k \in {"u1", "u2"} |-> Bool(TRUE)]),
   Obj([k \in {"k1", "k2"} |-> IF k = "k1" THEN Str("u1") ELSE Str("u9")])}

Todo(owner, list) ==
  Obj([k \in {"title"} \cup (IF owner = Undefined THEN {} ELSE {"owner"})
                      \cup (IF list = Undefined THEN {} ELSE {"collaborators"}) |->
         CASE k = "title" -> Str("x")
           [] k = "owner" -> owner
           [] k = "collaborators" -> list])

\* what the transport delivers for /todos and /users; undefined: nothing yet
TodosValues ==
  {Undefined}
    \cup {Obj([k \in {"t1"} |-> Todo(o, l)]) : o \in OwnerValues, l \in ListValues}
    \cup {Obj([k \in {"t1", "t2"} |-> IF k = "t1" THEN Todo(o, l) ELSE Todo(o2, Undefined)]) :
             o \in OwnerValues, l \in ListValues, o2 \in OwnerValues}
UsersValues == {Undefined, Obj([k \in {"u1"} |-> Al])}

ByOwner == [child |-> "owner", root |-> "users"]
ByCollaborators == [child |-> "collaborators", root |-> "users"]

PopulateLists ==
  {<<>>, <<ByOwner>>, <<ByCollaborators>>,
   <<ByOwner, ByCollaborators>>, <<ByCollaborators, ByOwner>>}

NotSetValues == {Undefined, Null, Bool(FALSE), Str("none"), Obj(EmptyFn)}

QueryPaths == {TodosPath, <<"/">> \o TodosPath}

InitPopulate ==
  /\ variant \in Variants
  /\ \E todos \in TodosValues, users \in UsersValues :
       state = reduce(variant,
                      reduce(variant, initialState,
                             Event(SET, PathStr(TodosPath), todos, Undefined, Undefined, Undefined)),
                      Event(SET, PathStr(UsersPath), users, Undefined, Undefined, Undefined))
  /\ pending = NoEvent
  /\ outcome = "returned"
  /\ query = NoQuery
  /\ view = Undefined
  /\ firebase = Client(FALSE)

Resolve ==
  \E path \in QueryPaths, populates \in PopulateLists, notSetValue \in NotSetValues :
    /\ query' = Query(path, populates, notSetValue)
    /\ view' = populatedDataToJS(state, path, populates, notSetValue)
    /\ UNCHANGED <<variant, state, pending, outcome, firebase>>

NextPopulate == Resolve

SpecPopulate == InitPopulate /\ [][NextPopulate]_vars

\* the collection the query reads is absent from the snapshot
BaseAbsent ==
  getIn(state, slice1(split(SlashData \o fixPath(query.path))), NOT_SET) = NOT_SET

\* C7: with several join specifications the substitution of each of them
\* shows in the result: every record carries, at the child of each
\* specification, what that specification alone puts there.
AllJoinsAppear ==
  (query.asked /\ ~BaseAbsent /\ Len(query.populates) >= 2)
  => \A n \in 1..Len(query.populates) :
       LET p == query.populates[n]
           alone == populatedDataToJS(state, query.path, <<p>>, query.notSetValue)
       IN \A r \in DOMAIN alone.m :
            prop(prop(view, r), p.child) = prop(alone.m[r], p.child)

\* C8: populatedDataToJS returns the caller's notSetValue whenever the base
\* collection is absent.
AbsentBaseGivesNotSetValue ==
  (query.asked /\ BaseAbsent) => view = query.notSetValue

\* the query in flight has one join specification and its base is present
SingleJoin == query.asked /\ ~BaseAbsent /\ Len(query.populates) = 1

\* the records of the base collection as the snapshot holds them
BaseRecords == toJS(getIn(state, slice1(split(SlashData \o fixPath(query.path))), Undefined))

\* the node of data/<root>/<key>, NOT_SET when there is none
Foreign(root, key) == getIn(state, <<"data", root, key>>, NOT_SET)

\* the record r of the base holds a string at the child of the one join
ScalarRef(r) ==
  prop(BaseRecords.m[r], query.populates[1].child).t = "string"

\* C22: with one join specification, a record whose child holds a string key
\* that exists in data/<root> comes back with child replaced by the foreign
\* record and every other field as stored; a record with no value at child
\* comes back as stored.
ScalarReferenceSubstituted ==
  SingleJoin
  => LET p == query.populates[1]
     IN /\ ~IsError(view) /\ view.t = "Object"
        /\ DOMAIN view.m = DOMAIN BaseRecords.m
        /\ \A r \in DOMAIN BaseRecords.m :
             LET stored == BaseRecords.m[r]
             IN IF prop(stored, p.child) = Undefined
                THEN view.m[r] = stored
                ELSE (ScalarRef(r) /\ Foreign(p.root, prop(stored, p.child).v) # NOT_SET)
                     => /\ DOMAIN view.m[r].m = DOMAIN stored.m
                        /\ view.m[r].m[p.child] = toJS(Foreign(p.root, prop(stored, p.child).v))
                        /\ \A f \in DOMAIN stored.m \ {p.child} :
                             view.m[r].m[f] = stored.m[f]

\* C22, reached: of two records one names an existing user and is given the
\* user's record, the other has no owner and is as stored
ScalarReferenceReached ==
  /\ SingleJoin /\ query.populates[1] = ByOwner
  /\ DOMAIN BaseRecords.m = {"t1", "t2"}
  /\ prop(BaseRecords.m["t1"], "owner") = Str("u1")
  /\ prop(BaseRecords.m["t1"], "collaborators") # Undefined
  /\ prop(BaseRecords.m["t2"], "owner") = Undefined
  /\ view.m["t1"].m["owner"] = Al
  /\ view.m["t2"] = BaseRecords.m["t2"]

\* C23: with one join specification, a record whose child holds a string key
\* with no record in data/<root> (the key is missing, or the root collection
\* is) comes back as stored, child still holding the key, and no error is
\* raised.
DanglingReferenceKept ==
  SingleJoin
  => LET p == query.populates[1]
     IN /\ ~IsError(view) /\ view.t = "Object"
        /\ \A r \in DOMAIN BaseRecords.m :
             (ScalarRef(r) /\ Foreign(p.root, prop(BaseRecords.m[r], p.child).v) = NOT_SET)
             => /\ r \in DOMAIN view.m
                /\ view.m[r] = BaseRecords.m[r]
                /\ view.m[r].m[p.child] = prop(BaseRecords.m[r], p.child)

\* the root collection of users is absent from the snapshot
UsersAbsent == getIn(state, <<"data", "users">>, NOT_SET) = NOT_SET

\* C23, reached: one record names a user missing from a present root
\* collection
DanglingReferenceReached ==
  /\ SingleJoin /\ query.populates[1] = ByOwner
  /\ ~UsersAbsent
  /\ "t2" \in DOMAIN BaseRecords.m
  /\ prop(BaseRecords.m["t1"], "owner") = Str("u1")
  /\ prop(BaseRecords.m["t2"], "owner") = Str("u9")
  /\ view.m["t1"].m["owner"] = Al
  /\ view.m["t2"].m["owner"] = Str("u9")

\* the foreign key of a list entry: its key under a true marker, else the marker
ForeignKey(key, marker) == IF marker = Bool(TRUE) THEN Str(key) ELSE marker

\* the list entry with that foreign key has a record in data/<root>
EntryResolves(root, fk) == fk.t = "string" /\ Foreign(root, fk.v) # NOT_SET

\* C24: with one join specification, a record whose child holds a mapping
\* from keys to markers comes back with each entry resolved on its own: an
\* entry whose foreign key (the key under a true marker, else the marker)
\* has a record in data/<root> holds that record, every other entry holds
\* its marker; the other fields of the record are as stored.
ReferenceListResolvedPerEntry ==
  SingleJoin
  => LET p == query.populates[1]
     IN /\ ~IsError(view) /\ view.t = "Object"
        /\ \A r \in DOMAIN BaseRecords.m :
             LET stored == BaseRecords.m[r]
                 list == prop(stored, p.child)
             IN list.t = "Object"
                => /\ r \in DOMAIN view.m
                   /\ DOMAIN view.m[r].m = DOMAIN stored.m
                   /\ \A f \in DOMAIN stored.m \ {p.child} : view.m[r].m[f] = stored.m[f]
                   /\ view.m[r].m[p.child].t = "Object"
                   /\ DOMAIN view.m[r].m[p.child].m = DOMAIN list.m
                   /\ \A key \in DOMAIN list.m :
                        LET fk == ForeignKey(key, list.m[key])
                        IN view.m[r].m[p.child].m[key] =
                             IF EntryResolves(p.root, fk)
                             THEN toJS(Foreign(p.root, fk.v))
                             ELSE list.m[key]

\* C24, reached: a list of true markers with one resolved and one unresolved
\* entry
TrueMarkerListReached ==
  /\ SingleJoin /\ query.populates[1] = ByCollaborators
  /\ prop(BaseRecords.m["t1"], "collaborators") = Obj([k \in {"u1", "u2"} |-> Bool(TRUE)])
  /\ view.m["t1"].m["collaborators"].m["u1"] = Al
  /\ view.m["t1"].m["collaborators"].m["u2"] = Bool(TRUE)

\* the characters of the path "isInitializing"
IsInitializingPath ==
  <<"i", "s", "I", "n", "i", "t", "i", "a", "l", "i", "z", "i", "n", "g">>

\* what reading isInitializing from the snapshot s yields
ReadInitializing(s) == pathToJS(s, IsInitializingPath, Undefined)

\* C29: once isInitializing reads false (AUTHENTICATION_INIT_FINISHED has been
\* applied), it reads false after every later event that is not an
\* AUTHENTICATION_INIT_STARTED: SET, NO_VALUE, SET_PROFILE, LOGIN,
\* LOGIN_ERROR, LOGOUT and UNAUTHORIZED_ERROR leave it false.
InitializingStaysFalse ==
  (/\ pending # NoEvent
   /\ pending.type # AUTHENTICATION_INIT_STARTED
   /\ ReadInitializing(Snapshot) = Bool(FALSE))
  => ReadInitializing(AfterReduce) = Bool(FALSE)

-----------------------------------------------------------------------------
(* The profile watch of actions/auth.js: init registers the auth-state       *)
(* handler, the handler and logout attach and detach the value callback of   *)
(* the user's profile path, and the callback dispatches SET_PROFILE, at once *)
(* or when the populate promise of its snapshot settles                      *)

MaxWatches == 3
MaxDeliveries == 3

\* the uids the provider signs in; "null" spells a null authUid in a path
Uids == {"A", "B"}

\* a JavaScript number
Num(n) == [t |-> "number", v |-> n]

\* the user object the provider hands to the auth-state handler
UserOf(uid) == Obj([k \in {"uid"} |-> Str(uid)])

\* snap.val() of the profile at <userProfile>/<uid> in its revision rev
ProfileSnap(uid, rev) == Obj([k \in {"uid", "rev"} |-> IF k = "uid" THEN Str(uid) ELSE Num(rev)])

\* dispatch: the store calls the reducer and keeps what it returns
dispatch(s, a) ==
  LET r == reduce(variant, s, a) IN IF IsError(r) THEN s ELSE r

\* .off('value', firebase._.profileWatch) on the path of firebase._.authUid
unWatchUserProfile(fb) ==
  IF fb.profileWatch # NoWatch
  THEN [fb EXCEPT !.listeners = @ \ {[uid |-> fb.authUid, cb |-> fb.profileWatch]},
                  !.profileWatch = NoWatch]
  ELSE fb

\* unWatchUserProfile, then .on('value', callback) on the path of authUid
watchUserProfile(fb) ==
  LET cleared == unWatchUserProfile(fb)
      cb == cleared.watches + 1
  IN [cleared EXCEPT !.watches = cb,
                     !.profileWatch = cb,
                     !.listeners = @ \cup {[uid |-> fb.authUid, cb |-> cb]}]

\* utils/populate promisesForPopulate: the populated parameters the promise
\* resolves with, none of the profile's fields being a reference
promisesForPopulate(snap) == Obj(EmptyFn)

ProfileEvent(profile) == Event(SET_PROFILE, Undefined, Undefined, profile, Undefined, Undefined)

InitSession ==
  /\ variant \in Variants
  /\ state = initialState
  /\ pending = NoEvent
  /\ outcome = "init"
  /\ query = NoQuery
  /\ view = Undefined
  /\ \E populate \in BOOLEAN : firebase = Client(populate)

\* init: the two dispatches and the registration between them
init ==
  /\ ~firebase.authListener
  /\ state' = dispatch(dispatch(state, Event(AUTHENTICATION_INIT_STARTED, Undefined, Undefined,
                                               Undefined, Undefined, Undefined)),
                        Event(AUTHENTICATION_INIT_FINISHED, Undefined, Undefined, Undefined,
                              Undefined, Undefined))
  /\ firebase' = [firebase EXCEPT !.authListener = TRUE]
  /\ UNCHANGED <<variant, pending, outcome, query, view>>

\* the handler init gave to onAuthStateChanged, called with no user
onAuthStateChangedNull ==
  /\ firebase.authListener
  /\ state' = dispatch(state, Event(LOGOUT, Undefined, Undefined, Undefined, Undefined, Undefined))
  /\ firebase' = [firebase EXCEPT !.currentUser = "null"]
  /\ UNCHANGED <<variant, pending, outcome, query, view>>

\* the handler init gave to onAuthStateChanged, called with the user uid
onAuthStateChanged(uid) ==
  /\ firebase.authListener
  /\ firebase.watches < MaxWatches
  /\ firebase' = watchUserProfile([firebase EXCEPT !.authUid = uid, !.currentUser = uid])
  /\ state' = dispatch(state, Event(LOGIN, Undefined, Undefined, Undefined, UserOf(uid), Null))
  /\ UNCHANGED <<variant, pending, outcome, query, view>>

logout ==
  /\ state' = dispatch(state, Event(LOGOUT, Undefined, Undefined, Undefined, Undefined, Undefined))
  /\ firebase' = unWatchUserProfile([firebase EXCEPT !.currentUser = "null", !.authUid = "null"])
  /\ UNCHANGED <<variant, pending, outcome, query, view>>

\* the remote database calls the attached value callback l with the next
\* revision of the profile at its path
profileValue(l) ==
  /\ l \in firebase.listeners
  /\ firebase.rev < MaxDeliveries
  /\ LET rev == firebase.rev + 1 IN
     IF ~firebase.populate
     THEN /\ state' = dispatch(state, ProfileEvent(ProfileSnap(l.uid, rev)))
          /\ firebase' = [firebase EXCEPT !.rev = rev]
     ELSE /\ state' = state
          /\ firebase' = [firebase EXCEPT !.rev = rev,
                                           !.promises = @ \cup {[uid |-> l.uid, rev |-> rev]}]
  /\ UNCHANGED <<variant, pending, outcome, query, view>>

\* the promise of promisesForPopulate for the snapshot pr resolves
populateThen(pr) ==
  /\ pr \in firebase.promises
  /\ state' = dispatch(state, ProfileEvent(assign(ProfileSnap(pr.uid, pr.rev),
                                                   promisesForPopulate(ProfileSnap(pr.uid, pr.rev)))))
  /\ firebase' = [firebase EXCEPT !.promises = @ \ {pr}]
  /\ UNCHANGED <<variant, pending, outcome, query, view>>

NextSession ==
  \/ init
  \/ onAuthStateChangedNull
  \/ \E uid \in Uids : onAuthStateChanged(uid)
  \/ logout
  \/ \E l \in firebase.listeners : profileValue(l)
  \/ \E pr \in firebase.promises : populateThen(pr)

SpecSession == InitSession /\ [][NextSession]_vars

\* C25: the profile events reach the reducer in the order the snapshots were
\* delivered, with populate parameters configured too: once every snapshot
\* delivered to the one value callback has been dispatched, the profile the
\* snapshot holds is of the revision delivered last, never an earlier one.
ProfileReflectsLastDelivered ==
  (firebase.watches = 1 /\ firebase.rev >= 2 /\ firebase.promises = {}
     /\ Field(state, "profile").t = "Map")
  => Field(state, "profile").m["rev"] = Num(firebase.rev)

\* the last authentication event dispatched is a LOGOUT
LoggedOut == Field(state, "auth") = Null

\* C26: once LOGOUT has been dispatched, by logout or by the auth-state
\* handler, the value callback of the previous user is attached nowhere, and
\* until the next LOGIN the profile of the snapshot stays cleared.
LogoutDetachesProfileWatch ==
  LoggedOut
  => /\ firebase.listeners = {}
     /\ Field(state, "profile") = Null

\* C27: at most one value callback is attached at the remote database, the
\* one firebase._.profileWatch holds.
AtMostOneProfileListener ==
  /\ Cardinality(firebase.listeners) <= 1
  /\ \A l \in firebase.listeners : l.cb = firebase.profileWatch

-----------------------------------------------------------------------------
(* The attempts of actions/auth.js: login, createUser and resetPassword, each *)
(* a call that dispatches at once and a promise chain that settles later; the *)
(* credentials are an email and a password                                    *)

MaxAttempts == 2
AttemptWatches == 1
AttemptDeliveries == 1

\* what a rejected promise of firebase.auth() carries
AuthErrors ==
  {Obj([k \in {"code"} |-> Str("auth/user-not-found")]),
   Obj([k \in {"code"} |-> Str("auth/wrong-password")])}

\* new Error(message)
NewError(message) == Obj([k \in {"message"} |-> Str(message)])

\* the signIn flag a caller of createUser passes
SignInFlags == {Undefined, Bool(TRUE), Bool(FALSE)}

\* the action dispatchLoginError dispatches
LoginError(authError) ==
  Event(LOGIN_ERROR, Undefined, Undefined, Undefined, Undefined, authError)

dispatchLoginError(s, authError) == dispatch(s, LoginError(authError))

\* the dispatches a handler makes one after the other
RECURSIVE dispatchAll(_, _)
dispatchAll(s, actions) ==
  IF actions = <<>> THEN s
  ELSE dispatchAll(dispatch(s, Head(actions)), Tail(actions))

\* the switch on err.code in the catch of createUser and of resetPassword
ErrorByCode(err) ==
  IF err.m["code"] = Str("auth/user-not-found")
  THEN LoginError(NewError("The specified user account does not exist."))
  ELSE LoginError(err)

\* firebase.auth().currentUser || (!!signIn && signIn === false): whether
\* createUser goes on to createUserProfile without calling login
skipsLogin(currentUser, signIn) ==
  currentUser # "null" \/ (Truthy(signIn) /\ signIn = Bool(FALSE))

\* login: up to the return of the promise
login ==
  /\ firebase.attempts < MaxAttempts
  /\ state' = dispatchLoginError(state, Null)
  /\ firebase' = [firebase EXCEPT !.attempts = @ + 1,
                                   !.logins = @ \cup {firebase.attempts + 1}]
  /\ UNCHANGED <<variant, pending, outcome, query, view>>

\* login: the sign-in resolved with the user data of an email account
loginThen(id) ==
  /\ id \in firebase.logins
  /\ \E uid \in Uids : firebase' = [firebase EXCEPT !.logins = @ \ {id}, !.currentUser = uid]
  /\ UNCHANGED <<variant, state, pending, outcome, query, view>>

\* login: the sign-in was rejected with err
loginCatch(id, err) ==
  /\ id \in firebase.logins
  /\ state' = dispatchLoginError(state, err)
  /\ firebase' = [firebase EXCEPT !.logins = @ \ {id}]
  /\ UNCHANGED <<variant, pending, outcome, query, view>>

\* createUser: up to the return of the promise; valid says whether an email
\* and a password were given
createUser(signIn, valid) ==
  /\ firebase.attempts < MaxAttempts
  /\ IF valid
     THEN /\ state' = dispatchLoginError(state, Null)
          /\ firebase' = [firebase EXCEPT
                            !.attempts = @ + 1,
                            !.creating = @ \cup {[id |-> firebase.attempts + 1,
                                                   signIn |-> signIn,
                                                   awaits |-> "createUserWithEmailAndPassword"]}]
     ELSE /\ state' = dispatchAll(state,
                         <<LoginError(Null),
                           LoginError(NewError("Email and Password are required to create user"))>>)
          /\ firebase' = [firebase EXCEPT !.attempts = @ + 1]
  /\ UNCHANGED <<variant, pending, outcome, query, view>>

\* createUser: the account was created; currentUser is what the provider
\* holds at that moment
createUserThen(c, currentUser) ==
  /\ c \in firebase.creating
  /\ c.awaits = "createUserWithEmailAndPassword"
  /\ IF skipsLogin(currentUser, c.signIn)
     THEN /\ state' = state
          /\ firebase' = [firebase EXCEPT
                            !.currentUser = currentUser,
                            !.creating = (@ \ {c}) \cup {[c EXCEPT !.awaits = "createUserProfile"]}]
     ELSE /\ state' = dispatchLoginError(state, Null)
          /\ firebase' = [firebase EXCEPT
                            !.currentUser = currentUser,
                            !.creating = (@ \ {c}) \cup {[c EXCEPT !.awaits = "login"]}]
  /\ UNCHANGED <<variant, pending, outcome, query, view>>

\* createUser: the login it called resolved, createUserProfile is next
createUserLoginThen(c) ==
  /\ c \in firebase.creating
  /\ c.awaits = "login"
  /\ \E uid \in Uids :
       firebase' = [firebase EXCEPT
                     !.currentUser = uid,
                     !.creating = (@ \ {c}) \cup {[c EXCEPT !.awaits = "createUserProfile"]}]
  /\ UNCHANGED <<variant, state, pending, outcome, query, view>>

\* createUser: a promise of the chain was rejected with err: the catch of
\* login and the inner catch when the login was rejected, then the outer catch
createUserCatch(c, err) ==
  /\ c \in firebase.creating
  /\ state' = dispatchAll(state, IF c.awaits = "login"
                                 THEN <<LoginError(err), ErrorByCode(err), LoginError(err)>>
                                 ELSE <<LoginError(err)>>)
  /\ firebase' = [firebase EXCEPT !.creating = @ \ {c}]
  /\ UNCHANGED <<variant, pending, outcome, query, view>>

\* createUser: createUserProfile resolved
createUserProfileThen(c) ==
  /\ c \in firebase.creating
  /\ c.awaits = "createUserProfile"
  /\ firebase' = [firebase EXCEPT !.creating = @ \ {c}]
  /\ UNCHANGED <<variant, state, pending, outcome, query, view>>

\* resetPassword: up to the return of the promise
resetPassword ==
  /\ firebase.attempts < MaxAttempts
  /\ state' = dispatchLoginError(state, Null)
  /\ firebase' = [firebase EXCEPT !.attempts = @ + 1,
                                   !.resets = @ \cup {firebase.attempts + 1}]
  /\ UNCHANGED <<variant, pending, outcome, query, view>>

\* resetPassword: the mail was sent
resetPasswordThen(id) ==
  /\ id \in firebase.resets
  /\ firebase' = [firebase EXCEPT !.resets = @ \ {id}]
  /\ UNCHANGED <<variant, state, pending, outcome, query, view>>

\* resetPassword: the request was rejected with err
resetPasswordCatch(id, err) ==
  /\ id \in firebase.resets
  /\ state' = dispatch(state, ErrorByCode(err))
  /\ firebase' = [firebase EXCEPT !.resets = @ \ {id}]
  /\ UNCHANGED <<variant, pending, outcome, query, view>>

\* an attempt starts: login, resetPassword, or createUser with an email and a
\* password
AttemptStarts ==
  \/ login
  \/ resetPassword
  \/ \E signIn \in SignInFlags : createUser(signIn, TRUE)

\* the attempts are made in a session of at most AttemptWatches sign-ins and
\* AttemptDeliveries profile snapshots
NextAttempt ==
  \/ init
  \/ firebase.watches < AttemptWatches /\ \E uid \in Uids : onAuthStateChanged(uid)
  \/ firebase.rev < AttemptDeliveries /\ \E l \in firebase.listeners : profileValue(l)
  \/ \E pr \in firebase.promises : populateThen(pr)
  \/ login
  \/ \E id \in firebase.logins : loginThen(id)
  \/ \E id \in firebase.logins, err \in AuthErrors : loginCatch(id, err)
  \/ \E signIn \in SignInFlags, valid \in BOOLEAN : createUser(signIn, valid)
  \/ \E c \in firebase.creating, currentUser \in Uids \cup {"null"} : createUserThen(c, currentUser)
  \/ \E c \in firebase.creating : createUserLoginThen(c)
  \/ \E c \in firebase.creating, err \in AuthErrors : createUserCatch(c, err)
  \/ \E c \in firebase.creating : createUserProfileThen(c)
  \/ resetPassword
  \/ \E id \in firebase.resets : resetPasswordThen(id)
  \/ \E id \in firebase.resets, err \in AuthErrors : resetPasswordCatch(id, err)

SpecAttempt == InitSession /\ [][NextAttempt]_vars

\* C28: the start of a login, createUser or resetPassword attempt in an
\* authenticated session clears authError and leaves the auth and the profile
\* of the snapshot as they were.
AttemptStartKeepsSession ==
  [][(AttemptStarts /\ Field(state, "auth").t = "Map")
       => /\ Field(state', "authError") = Null
          /\ Field(state', "auth") = Field(state, "auth")
          /\ Field(state', "profile") = Field(state, "profile")]_vars

\* C30: a createUser call given signIn = false never goes on to call login:
\* after the account is created it waits for createUserProfile.
CreateUserLogsInOnlyIfSignIn ==
  \A c \in firebase.creating : c.signIn = Bool(FALSE) => c.awaits # "login"

-----------------------------------------------------------------------------
(* The event loop run on each of the reducers: the events of the              *)
(* authentication loop, reduced by the reducer chosen at the start            *)

InitVariants ==
  /\ variant \in AllVariants
  /\ state = initialState
  /\ pending = NoEvent
  /\ outcome = "init"
  /\ query = NoQuery
  /\ view = Undefined
  /\ firebase = Client(FALSE)

\* the chosen reducer is called on the event in flight and the loop stores
\* its result
ReduceVariant ==
  /\ pending # NoEvent
  /\ pending' = NoEvent
  /\ LET after == reduceVariant(variant, state, pending)
     IN IF IsError(after)
        THEN state' = state /\ outcome' = "threw"
        ELSE state' = after /\ outcome' = "returned"
  /\ UNCHANGED <<variant, query, view, firebase>>

NextVariants ==
  \/ DeliverLOGIN
  \/ DeliverLOGIN_ERROR
  \/ DeliverUNAUTHORIZED_ERROR
  \/ DeliverAUTHENTICATION_INIT_FINISHED
  \/ DeliverSET_PROFILE
  \/ DeliverData
  \/ DeliverLOGOUT
  \/ DeliverAUTHENTICATION_INIT_STARTED
  \/ ReduceVariant

SpecVariants == InitVariants /\ [][NextVariants]_vars

\* the path of the event a passes, in the snapshot s, only through records
\* and missing nodes: no null and no scalar at the path or above it
PassesThroughRecords(s, a) ==
  /\ a.path # Undefined
  /\ LET keyPath == dataPath(pathToArr(a.path.v))
     IN \A n \in 1..Len(keyPath) :
          LET node == getIn(s, SubSeq(keyPath, 1, n), NOT_SET)
          IN node = NOT_SET \/ node.t = "Map"

\* C31: on an event whose path, if it is a SET or a NO_VALUE, passes only
\* through records and missing nodes, src/reducer.js, the built reducer and
\* the reducer of utils/presence.js give the same snapshot from the same
\* snapshot, so that they agree after every event of such a sequence.
VariantsAgreeOnRecordPaths ==
  (/\ pending # NoEvent
   /\ pending.type \in {SET, NO_VALUE} => PassesThroughRecords(Snapshot, pending))
  => LET after == reduceVariant("src", state, pending)
     IN \A v \in AllVariants : reduceVariant(v, state, pending) = after

====
